---- MODULE Spec2Model ----
(***************************************************************************)
(* Model of the crash-game backend (src/main.py, src/schemas.py).          *)
(*                                                                         *)
(* Units.  Multipliers (crash_at, auto_cashout, at_multiplier,             *)
(* cashed_out_at) are in hundredths: 150 is 1.50.  Money (amount, profit)  *)
(* is in cents: 1050 is 10.50.  The growth constant k is in quarters:      *)
(* 1 is 0.25 per second.  Time is in ticks of two seconds.                 *)
(* Optional[...] values are sequences: << >> is None, <<v>> is the value v.*)
(*                                                                         *)
(* The store.  rounds and bets are the "crashround" and "crashbet"         *)
(* collections; a document's _id is its position in the sequence, and id 0 *)
(* is an id no stored document has (an ephemeral uuid4().hex, or any other *)
(* string a client sends).                                                 *)
(*                                                                         *)
(* Responses.  resp is the body of the last response sent.  Every handler  *)
(* takes a parameter rec: with rec = TRUE the response is recorded in resp *)
(* (Spec); with rec = FALSE it is sent and forgotten (SpecStore), which    *)
(* leaves the stored documents as the only state that varies.              *)
(*                                                                         *)
(* Concurrency.  The handlers are plain def functions, which FastAPI runs  *)
(* on a thread pool.  In Spec and SpecStore each request runs alone, from  *)
(* its first line to its response.  In SpecConcurrent the cashout requests *)
(* of the Workers interleave at their two store calls: pending[w] is the   *)
(* bet document worker w has fetched with find_one and not yet updated.    *)
(*                                                                         *)
(* crash_point_from_seed alone.  In SpecDerive the digest prefix r ranges  *)
(* over every value and derive is <<r>> followed by the results of the     *)
(* calls made so far; in the other specifications derive stays empty.      *)
(***************************************************************************)
EXTENDS Integers, Sequences, FiniteSets, TLC

VARIABLES now, dbUp, rounds, bets, resp, pending, derive

vars == <<now, dbUp, rounds, bets, resp, pending, derive>>

----------------------------------------------------------------------------
(* Bounds of the model *)

(* the clock stops at MaxTime; the store holds at most MaxDocs documents *)
MaxTime == 1
MaxDocs == 2
(* crash_point_from_seed is called at most MaxCalls times on one digest *)
MaxCalls == 2

----------------------------------------------------------------------------
(* Optional values *)

None == << >>
Some(v) == <<v>>
IsNone(o) == o = << >>
Val(o) == o[1]

Max(a, b) == IF a >= b THEN a ELSE b
Min(a, b) == IF a <= b THEN a ELSE b

(* Python's round() to the nearest integer, ties to even, of n / d (d > 0). *)
RoundHalfEven(n, d) ==
    LET q == n \div d
        rem == n - q * d
    IN  IF 2 * rem < d THEN q
        ELSE IF 2 * rem > d THEN q + 1
        ELSE IF q % 2 = 0 THEN q ELSE q + 1

----------------------------------------------------------------------------
(* Inputs the clients and the environment may supply *)

Seeds == {1, 2}
Players == {"p1", "p2"}
Statuses == {"scheduled", "running", "crashed", "paused"}
KInputs == {None, Some(0), Some(1)}
DelayInputs == {None, Some(0), Some(1)}
(* PlaceBetRequest bodies (amount, auto_cashout): two well-formed, one with *)
(* a negative amount, one with an auto_cashout of 1.00                     *)
BetRequests ==
    {[amount |-> 1050, auto_cashout |-> None],
     [amount |-> 1050, auto_cashout |-> Some(150)],
     [amount |-> -500, auto_cashout |-> None],
     [amount |-> 1050, auto_cashout |-> Some(100)]}
Multipliers == {50, 150}
Workers == {"w1", "w2"}
StoreFull == Len(rounds) + Len(bets) >= MaxDocs
RoundIdInputs == {0} \cup (1 .. Len(rounds))

----------------------------------------------------------------------------
(* crash_point_from_seed, main.py 28-39 *)

(* Width of the integer r taken from the digest.  The code takes 13 hex    *)
(* digits (52 bits); the model keeps the leading PrefixBits bits of it, so *)
(* that 100 * 2^PrefixBits stays inside TLC's integers.                    *)
PrefixBits == 20

(* The leading hex digits of HMAC-SHA256(server_seed, "crash") as an       *)
(* integer: a fixed function of the seed, here a multiplicative scramble.  *)
DigestPrefix(server_seed) == ((server_seed + 1) * 786432) % (2 ^ PrefixBits)

(* lines 32-39 with the upper clamp of line 38 left out *)
crash_point_no_cap(r0) ==
    LET r == IF r0 = 0 THEN 1 ELSE r0
        one == 2 ^ PrefixBits
    IN  Max(101, RoundHalfEven(100 * one, Max(1, one - (r % one))))

(* lines 32-39: the crash point of the digest prefix r0 *)
crash_point_from_prefix(r0) ==
    LET r == IF r0 = 0 THEN 1 ELSE r0
        one == 2 ^ PrefixBits
        \* x = r / one ; 1.0 - x = (one - r) / one ; max(1e-9, 1.0 - x)
        denom == Max(1, one - (r % one))
        \* round(max(1.01, min(m, 50.0)), 2) with m = one / denom, in hundredths
        m100 == RoundHalfEven(100 * one, denom)
    IN  Max(101, Min(m100, 5000))

crash_point_from_seed(server_seed) == crash_point_from_prefix(DigestPrefix(server_seed))

(* every value of the digest prefix, as its upper and its lower half *)
Prefixes(half) == (half * 2 ^ (PrefixBits - 1)) .. ((half + 1) * 2 ^ (PrefixBits - 1) - 1)

----------------------------------------------------------------------------
(* Responses *)

RoundInfo(id, start_time, crash_at, status) ==
    [kind |-> "RoundInfo", code |-> 200, id |-> id, start_time |-> start_time,
     crash_at |-> crash_at, status |-> status]

OkResponse == [kind |-> "ok", code |-> 200]

BetResponse(bet_id) == [kind |-> "bet_id", code |-> 200, id |-> bet_id]

ProfitResponse(profit) == [kind |-> "profit", code |-> 200, profit |-> profit]

NoResponse == [kind |-> "none", code |-> 200]

Respond(rec, r) == resp' = IF rec THEN r ELSE NoResponse

----------------------------------------------------------------------------
(* The persistence collaborator (database.py) *)

(* create_document(collection, data): appends the document; the new id is  *)
(* the new length.                                                         *)
create_document(collection, data) == Append(collection, data)

----------------------------------------------------------------------------
Init ==
    /\ now = 0
    /\ dbUp \in BOOLEAN
    /\ rounds = << >>
    /\ bets = << >>
    /\ resp = NoResponse
    /\ pending = [w \in Workers |-> None]
    /\ derive = << >>

(* time.time() advances *)
Tick ==
    /\ now < MaxTime
    /\ now' = now + 1
    /\ UNCHANGED <<dbUp, rounds, bets, resp, pending, derive>>

----------------------------------------------------------------------------
(* create_round, main.py 75-93 *)

RoundData(server_seed, req_k, req_delay) ==
    [server_seed |-> server_seed,
     start_time |-> now + (IF IsNone(req_delay) THEN 0 ELSE Val(req_delay)),
     crash_at |-> crash_point_from_seed(server_seed),
     k |-> IF IsNone(req_k) \/ Val(req_k) = 0 THEN 1 ELSE Val(req_k),
     status |-> "scheduled"]

(* lines 88-93 without the try/except: a failure of create_document leaves *)
(* the handler with an error response                                      *)
create_round_body_raising(rec, server_seed, req_k, req_delay, storeFails) ==
    LET data == RoundData(server_seed, req_k, req_delay)
    IN  IF storeFails
        THEN /\ rounds' = rounds
             /\ Respond(rec, [kind |-> "error", code |-> 500])
        ELSE /\ ~StoreFull
             /\ rounds' = create_document(rounds, data)
             /\ Respond(rec, RoundInfo(Len(rounds) + 1, data.start_time, data.crash_at,
                                       "scheduled"))

(* storeFails: create_document raises (db is None, or the insert fails) *)
create_round_body(rec, server_seed, req_k, req_delay, storeFails) ==
    LET data == RoundData(server_seed, req_k, req_delay)
    IN  IF storeFails
        THEN /\ rounds' = rounds
             /\ Respond(rec, RoundInfo(0, data.start_time, data.crash_at, "scheduled"))
        ELSE /\ ~StoreFull
             /\ rounds' = create_document(rounds, data)
             /\ Respond(rec, RoundInfo(Len(rounds) + 1, data.start_time, data.crash_at,
                                       "scheduled"))

create_round(rec) ==
    \E server_seed \in Seeds, req_k \in KInputs, req_delay \in DelayInputs,
       storeFails \in BOOLEAN :
        /\ (~dbUp) => storeFails
        /\ create_round_body(rec, server_seed, req_k, req_delay, storeFails)
        /\ UNCHANGED <<now, dbUp, bets, pending, derive>>

----------------------------------------------------------------------------
(* get_current_round, main.py 95-107 *)

ActiveRounds == {i \in DOMAIN rounds : rounds[i].status \in {"scheduled", "running"}}

(* a sort by start_time in ascending order: a round of least start_time *)
LeastRecentActive ==
    {i \in ActiveRounds : \A j \in ActiveRounds : rounds[j].start_time >= rounds[i].start_time}

(* find(...).sort("start_time", -1).limit(1): a round of greatest start_time *)
MostRecentActive ==
    {i \in ActiveRounds : \A j \in ActiveRounds : rounds[j].start_time <= rounds[i].start_time}

(* findFails: db is None, or the find raises *)
get_current_round_call(rec, findFails) ==
    /\ (~dbUp) => findFails
    /\ IF ~findFails /\ ActiveRounds # {}
       THEN \E i \in MostRecentActive :
                /\ Respond(rec, RoundInfo(i, rounds[i].start_time, rounds[i].crash_at,
                                          rounds[i].status))
                /\ UNCHANGED <<now, dbUp, rounds, bets, pending, derive>>
       ELSE \E server_seed \in Seeds, storeFails \in BOOLEAN :
                /\ (~dbUp) => storeFails
                \* CreateRoundRequest(): k = 0.25, delay_seconds = 2.0
                /\ create_round_body(rec, server_seed, Some(1), Some(1), storeFails)
                /\ UNCHANGED <<now, dbUp, bets, pending, derive>>

get_current_round(rec) ==
    \E findFails \in BOOLEAN : get_current_round_call(rec, findFails)

----------------------------------------------------------------------------
(* update_round_status, main.py 109-116 *)

(* a $set that also rewrites the crash point *)
SetStatusAndCrashAt(doc, status) == [doc EXCEPT !.status = status, !.crash_at = 101]

(* {"$set": {"status": status}} *)
SetStatus(doc, status) == [doc EXCEPT !.status = status]

update_round_status(rec) ==
    \E round_id \in RoundIdInputs, status \in Statuses, storeFails \in BOOLEAN :
        /\ (~dbUp) => storeFails
        /\ rounds' = IF ~storeFails /\ round_id \in DOMAIN rounds
                     THEN [rounds EXCEPT ![round_id] = SetStatus(@, status)]
                     ELSE rounds
        /\ Respond(rec, OkResponse)
        /\ UNCHANGED <<now, dbUp, bets, pending, derive>>

----------------------------------------------------------------------------
(* place_bet, main.py 118-135 *)

BetData(round_id, player_id, amount, auto_cashout) ==
    [round_id |-> round_id, player_id |-> player_id, amount |-> amount,
     auto_cashout |-> auto_cashout, cashed_out_at |-> None, profit |-> None]

place_bet(rec) ==
    \E round_id \in RoundIdInputs, player_id \in Players, req \in BetRequests,
       storeFails \in BOOLEAN :
        /\ (~dbUp) => storeFails
        /\ IF storeFails
           THEN /\ bets' = bets
                /\ Respond(rec, BetResponse(0))
           ELSE /\ ~StoreFull
                /\ bets' = create_document(bets, BetData(round_id, player_id, req.amount,
                                                         req.auto_cashout))
                /\ Respond(rec, BetResponse(Len(bets) + 1))
        /\ UNCHANGED <<now, dbUp, rounds, pending, derive>>

----------------------------------------------------------------------------
(* cashout, main.py 137-150 *)

(* find_one({"round_id", "player_id"}, sort=[("created_at", -1)]): the     *)
(* matching bet placed last                                                *)
MatchingBets(round_id, player_id) ==
    {i \in DOMAIN bets : bets[i].round_id = round_id /\ bets[i].player_id = player_id}

(* sort=[("created_at", 1)]: the matching bet placed first *)
EarliestBet(round_id, player_id) ==
    CHOOSE i \in MatchingBets(round_id, player_id) :
        \A j \in MatchingBets(round_id, player_id) : j >= i

LatestBet(round_id, player_id) ==
    CHOOSE i \in MatchingBets(round_id, player_id) :
        \A j \in MatchingBets(round_id, player_id) : j <= i

(* round(amount * (at_multiplier - 1.0), 2): line 146 without max(0.0, .) *)
ProfitNoFloor(amount, at_multiplier) ==
    RoundHalfEven(amount * (at_multiplier - 100), 100)

(* round(amount * max(0.0, at_multiplier - 1.0), 2), in cents *)
Profit(amount, at_multiplier) ==
    RoundHalfEven(amount * Max(0, at_multiplier - 100), 100)

(* {"$set": {"cashed_out_at": at_multiplier}}: the profit is not written *)
SettleCashedOutAtOnly(bet, at_multiplier, profit) ==
    [bet EXCEPT !.cashed_out_at = Some(at_multiplier)]

(* a $set that also rewrites the stake with the amount paid out *)
SettleAndRewriteAmount(bet, at_multiplier, profit) ==
    [bet EXCEPT !.cashed_out_at = Some(at_multiplier), !.profit = Some(profit),
                !.amount = @ + profit]

(* {"$set": {"cashed_out_at": at_multiplier, "profit": profit}} *)
Settle(bet, at_multiplier, profit) ==
    [bet EXCEPT !.cashed_out_at = Some(at_multiplier), !.profit = Some(profit)]

(* failure: "none", "find" (find_one raises) or "update" (update_one raises) *)
cashout_call(rec, round_id, player_id, at_multiplier, failure) ==
        /\ (~dbUp) => failure = "find"
        /\ IF failure = "find" \/ MatchingBets(round_id, player_id) = {}
           THEN /\ bets' = bets
                /\ Respond(rec, ProfitResponse(None))
           ELSE LET i == LatestBet(round_id, player_id)
                    profit == Profit(bets[i].amount, at_multiplier)
                IN  /\ bets' = IF failure = "update" THEN bets
                               ELSE [bets EXCEPT ![i] = Settle(@, at_multiplier, profit)]
                    /\ Respond(rec, ProfitResponse(Some(profit)))
        /\ UNCHANGED <<now, dbUp, rounds, pending, derive>>

cashout(rec) ==
    \E round_id \in RoundIdInputs, player_id \in Players, at_multiplier \in Multipliers,
       failure \in {"none", "find", "update"} :
        cashout_call(rec, round_id, player_id, at_multiplier, failure)

----------------------------------------------------------------------------
(* cashout, main.py 137-150, as two steps of a worker thread *)

(* line 143: find_one fetches the player's latest bet; lines 145-146       *)
(* compute the profit from the fetched document                            *)
cashout_find(rec, w) ==
    \E round_id \in RoundIdInputs, player_id \in Players, at_multiplier \in Multipliers,
       findFails \in BOOLEAN :
        /\ IsNone(pending[w])
        /\ (~dbUp) => findFails
        /\ IF findFails \/ MatchingBets(round_id, player_id) = {}
           THEN /\ pending' = pending
                /\ Respond(rec, ProfitResponse(None))
           ELSE LET i == LatestBet(round_id, player_id)
                IN  /\ pending' = [pending EXCEPT ![w] =
                                      Some([id |-> i, doc |-> bets[i],
                                            at_multiplier |-> at_multiplier,
                                            profit |-> Profit(bets[i].amount, at_multiplier)])]
                    /\ resp' = resp
        /\ UNCHANGED <<now, dbUp, rounds, bets, derive>>

(* line 147: update_one({"_id": bet["_id"]}, $set), then line 150 *)
cashout_update(rec, w) ==
    \E updateFails \in BOOLEAN :
        /\ ~IsNone(pending[w])
        /\ LET p == Val(pending[w])
           IN  /\ bets' = IF updateFails THEN bets
                          ELSE [bets EXCEPT ![p.id] = Settle(@, p.at_multiplier, p.profit)]
               /\ Respond(rec, ProfitResponse(Some(p.profit)))
        /\ pending' = [pending EXCEPT ![w] = None]
        /\ UNCHANGED <<now, dbUp, rounds, derive>>

----------------------------------------------------------------------------
Next(rec) ==
    \/ Tick
    \/ create_round(rec)
    \/ get_current_round(rec)
    \/ update_round_status(rec)
    \/ place_bet(rec)
    \/ cashout(rec)

(* every handler, responses recorded *)
Spec == Init /\ [][Next(TRUE)]_vars

(* every handler, responses not recorded *)
SpecStore == Init /\ [][Next(FALSE)]_vars

(* the round handlers alone, responses recorded *)
NextRounds ==
    \/ Tick
    \/ create_round(TRUE)
    \/ get_current_round(TRUE)
    \/ update_round_status(TRUE)

SpecRounds == Init /\ [][NextRounds]_vars

(* the handlers that have a degraded mode, responses recorded *)
NextDegraded ==
    \/ create_round(TRUE)
    \/ get_current_round(TRUE)
    \/ place_bet(TRUE)
    \/ cashout(TRUE)

SpecDegraded == Init /\ [][NextDegraded]_vars

(* the bet handlers alone, responses recorded *)
NextBets ==
    \/ place_bet(TRUE)
    \/ cashout(TRUE)

SpecBets == Init /\ [][NextBets]_vars

(* crash_point_from_seed is called, up to MaxCalls times, on one digest *)
InitDerive ==
    /\ now = 0
    /\ dbUp = TRUE
    /\ rounds = << >>
    /\ bets = << >>
    /\ resp = NoResponse
    /\ pending = [w \in Workers |-> None]
    /\ \E half \in {1, 0} : derive \in {<<r>> : r \in Prefixes(half)}

CallDerive ==
    /\ Len(derive) >= 1
    /\ Len(derive) <= MaxCalls
    /\ derive' = Append(derive, crash_point_from_prefix(derive[1]))
    /\ UNCHANGED <<now, dbUp, rounds, bets, resp, pending>>

SpecDerive == InitDerive /\ [][CallDerive]_vars

(* bets are placed and the workers' cashout requests interleave *)
NextConcurrent ==
    \/ place_bet(FALSE)
    \/ \E w \in Workers : cashout_find(FALSE, w)
    \/ \E w \in Workers : cashout_update(FALSE, w)

SpecConcurrent == Init /\ [][NextConcurrent]_vars

----------------------------------------------------------------------------
(* Vocabulary of the properties *)

(* floor(100 * exp(q / 4)) for q = 0, 1, 2, ... *)
ExpQuarters ==
    <<100, 128, 164, 211, 271, 349, 448, 575, 738, 948, 1218, 1564, 2008,
      2579, 3311, 4252, 5459, 7010, 9001, 11558, 14841>>

(* the live multiplier m(t) = exp(k * t) of a round at time t >= start_time, *)
(* in hundredths (k in quarters per second, a tick is two seconds)          *)
LiveMultiplier(round, t) == ExpQuarters[2 * round.k * (t - round.start_time) + 1]

RoundExists(round_id) == round_id \in DOMAIN rounds

Settled(bet) == ~IsNone(bet.cashed_out_at)

(* a bet the data model of schemas.py admits *)
WellFormed(bet) ==
    /\ bet.amount > 0
    /\ IsNone(bet.auto_cashout) \/ Val(bet.auto_cashout) >= 101

LegalTransitions == {<<"scheduled", "running">>, <<"running", "crashed">>}

----------------------------------------------------------------------------
(* C1: a round's status only ever moves scheduled -> running -> crashed;   *)
(* no step moves it backward, skips running, or stores a value outside     *)
(* {scheduled, running, crashed}.                                          *)
C1_StatusOnlyAdvances ==
    [][\A i \in DOMAIN rounds :
          \/ rounds'[i].status = rounds[i].status
          \/ <<rounds[i].status, rounds'[i].status>> \in LegalTransitions]_vars

(* C2: no bet is settled twice; once cashed_out_at is set on a (well-      *)
(* formed) bet, no later step changes the bet's cashed_out_at or profit.   *)
C2_NoBetSettledTwice ==
    [][\A i \in DOMAIN bets :
          (WellFormed(bets[i]) /\ Settled(bets[i])) =>
              /\ bets'[i].cashed_out_at = bets[i].cashed_out_at
              /\ bets'[i].profit = bets[i].profit]_vars

(* C3: every step that settles a (well-formed) bet finds the bet's round   *)
(* existing with status running, and settles at a multiplier <= the        *)
(* round's crash_at.                                                       *)
C3_SettlementOnlyWhileRunning ==
    [][\A i \in DOMAIN bets :
          (WellFormed(bets[i]) /\ bets'[i].cashed_out_at # bets[i].cashed_out_at) =>
              /\ RoundExists(bets[i].round_id)
              /\ rounds[bets[i].round_id].status = "running"
              /\ Val(bets'[i].cashed_out_at) <= rounds[bets[i].round_id].crash_at]_vars

(* C4: a step that settles an unsettled (well-formed) bet of a started,    *)
(* running round settles it at a multiplier that does not exceed the       *)
(* round's live multiplier exp(k * (now - start_time)) at that time.       *)
C4_CashoutWithinLiveMultiplier ==
    [][\A i \in DOMAIN bets :
          (/\ WellFormed(bets[i])
           /\ ~Settled(bets[i])
           /\ Settled(bets'[i])
           /\ RoundExists(bets[i].round_id)
           /\ rounds[bets[i].round_id].status = "running"
           /\ rounds[bets[i].round_id].start_time <= now)
          => Val(bets'[i].cashed_out_at) <= LiveMultiplier(rounds[bets[i].round_id], now)]_vars

(* C5: a round is stored with crash_at = crash_point_from_seed(server_seed) *)
(* and no step changes the crash_at or the server_seed of a stored round.  *)
C5_CrashAtFixedAtCreation ==
    [][/\ \A i \in DOMAIN rounds :
            /\ i \in DOMAIN rounds'
            /\ rounds'[i].crash_at = rounds[i].crash_at
            /\ rounds'[i].server_seed = rounds[i].server_seed
       /\ \A i \in (DOMAIN rounds') \ (DOMAIN rounds) :
            rounds'[i].crash_at = crash_point_from_seed(rounds'[i].server_seed)]_vars

(* C5 witness: a stored round whose status was overridden to crashed, with *)
(* a bet placed on it and settled by a cashout.                            *)
C5_Witness ==
    \E i \in DOMAIN rounds, j \in DOMAIN bets :
        /\ rounds[i].status = "crashed"
        /\ bets[j].round_id = i
        /\ Settled(bets[j])
        /\ rounds[i].crash_at = crash_point_from_seed(rounds[i].server_seed)

(* C6: no response describing a stored round as scheduled or running       *)
(* carries that round's crash_at.                                          *)
C6_CrashAtHiddenBeforeCrash ==
    (/\ resp.kind = "RoundInfo"
     /\ resp.status \in {"scheduled", "running"}
     /\ RoundExists(resp.id))
    => resp.crash_at # rounds[resp.id].crash_at

(* C7: a step that stores a bet finds the bet's round existing with status *)
(* scheduled or running.                                                   *)
C7_BetOnlyOnOpenRound ==
    [][Len(bets') > Len(bets) =>
          LET bet == bets'[Len(bets')]
          IN  /\ RoundExists(bet.round_id)
              /\ rounds[bet.round_id].status \in {"scheduled", "running"}]_vars

(* C8: every stored bet has amount > 0 and auto_cashout absent or >= 1.01. *)
C8_StoredBetsValid ==
    \A i \in DOMAIN bets :
        /\ bets[i].amount > 0
        /\ IsNone(bets[i].auto_cashout) \/ Val(bets[i].auto_cashout) >= 101

(* C9: the step that brings a running round to crashed settles every       *)
(* (well-formed) bet of the round that is still unsettled, with            *)
(* cashed_out_at = crash_at and profit = -amount.                          *)
C9_CrashFinalizesUnsettledBets ==
    [][\A r \in DOMAIN rounds :
          (rounds[r].status = "running" /\ rounds'[r].status = "crashed") =>
              \A i \in DOMAIN bets :
                  (bets[i].round_id = r /\ WellFormed(bets[i]) /\ ~Settled(bets[i])) =>
                      /\ bets'[i].cashed_out_at = Some(rounds[r].crash_at)
                      /\ bets'[i].profit = Some(-bets[i].amount)]_vars

(* C10: when the clock advances and the live multiplier of a running round *)
(* has reached the auto_cashout of an unsettled (well-formed) bet while    *)
(* still below                                                             *)
(* crash_at, that step settles the bet with cashed_out_at = auto_cashout   *)
(* and profit = amount * (auto_cashout - 1); and it leaves unsettled every *)
(* unsettled bet whose auto_cashout is above its round's crash_at.         *)
C10_AutoCashoutSettles ==
    [][now' # now =>
          /\ \A i \in DOMAIN bets :
                LET bet == bets[i]
                    r == bet.round_id
                IN  (/\ WellFormed(bet)
                     /\ ~Settled(bet)
                     /\ ~IsNone(bet.auto_cashout)
                     /\ RoundExists(r)
                     /\ rounds[r].status = "running"
                     /\ rounds[r].start_time <= now'
                     /\ Val(bet.auto_cashout) <= LiveMultiplier(rounds[r], now')
                     /\ LiveMultiplier(rounds[r], now') < rounds[r].crash_at)
                    => /\ bets'[i].cashed_out_at = bet.auto_cashout
                       /\ bets'[i].profit =
                              Some(Profit(bet.amount, Val(bet.auto_cashout)))
          /\ \A i \in DOMAIN bets :
                LET bet == bets[i]
                    r == bet.round_id
                IN  (/\ ~Settled(bet)
                     /\ ~IsNone(bet.auto_cashout)
                     /\ RoundExists(r)
                     /\ Val(bet.auto_cashout) > rounds[r].crash_at)
                    => ~Settled(bets'[i])]_vars

(* C11: when the clock advances, a scheduled round whose start_time has    *)
(* been reached becomes running, a running round whose live multiplier has *)
(* reached crash_at becomes crashed, and a running round whose live        *)
(* multiplier is still below crash_at does not become crashed.             *)
C11_TimeDrivesRounds ==
    [][now' # now =>
          \A r \in DOMAIN rounds :
              /\ (rounds[r].status = "scheduled" /\ rounds[r].start_time <= now')
                 => rounds'[r].status \in {"running", "crashed"}
              /\ (/\ rounds[r].status = "running"
                  /\ rounds[r].start_time <= now'
                  /\ LiveMultiplier(rounds[r], now') >= rounds[r].crash_at)
                 => rounds'[r].status = "crashed"
              /\ (/\ rounds[r].status = "running"
                  /\ rounds[r].start_time <= now'
                  /\ LiveMultiplier(rounds[r], now') < rounds[r].crash_at)
                 => rounds'[r].status # "crashed"]_vars

(* C12: of two settlement attempts that both fetched a (well-formed) bet   *)
(* while it was unsettled, only one writes it: a worker whose fetched      *)
(* document is unsettled writes cashed_out_at and profit only if the stored bet is     *)
(* still unsettled at the write.                                           *)
C12_ConcurrentAttemptsSettleOnce ==
    [][\A w \in Workers :
          (/\ ~IsNone(pending[w])
           /\ IsNone(pending'[w])
           /\ WellFormed(Val(pending[w]).doc)
           /\ ~Settled(Val(pending[w]).doc)
           /\ bets'[Val(pending[w]).id] # bets[Val(pending[w]).id])
          => ~Settled(bets[Val(pending[w]).id])]_vars

(* C13, as stated: a Get current round whose lookup succeeds returns a     *)
(* scheduled or running round whenever one is stored and then creates      *)
(* nothing; and when the last response described the newest stored round   *)
(* (the round a Create round has just stored) and no other stored round    *)
(* has the same start_time (two readings of the clock differ), it returns  *)
(* that round.                                                             *)
C13_ReturnsRoundJustCreated ==
    [][get_current_round_call(TRUE, FALSE) =>
          /\ ActiveRounds # {} =>
                /\ rounds' = rounds
                /\ resp'.id \in ActiveRounds
          /\ (/\ resp.kind = "RoundInfo"
              /\ resp.id = Len(rounds)
              /\ resp.id \in ActiveRounds
              /\ \A j \in DOMAIN rounds :
                    j # resp.id => rounds[j].start_time # rounds[resp.id].start_time)
             => resp'.id = resp.id]_vars

(* C13, amended: a Get current round whose lookup succeeds returns, when a *)
(* scheduled or running round is stored, such a round of greatest          *)
(* start_time, with that round's fields, and stores nothing; when none is  *)
(* stored it stores one new round and returns it, or returns an ephemeral  *)
(* one.                                                                    *)
C13_ReturnsGreatestStartTime ==
    [][get_current_round_call(TRUE, FALSE) =>
          IF \E j \in DOMAIN rounds : rounds[j].status \in {"scheduled", "running"}
          THEN /\ rounds' = rounds
               /\ resp'.kind = "RoundInfo"
               /\ resp'.id \in DOMAIN rounds
               /\ rounds[resp'.id].status \in {"scheduled", "running"}
               /\ \A j \in DOMAIN rounds :
                     rounds[j].status \in {"scheduled", "running"}
                     => rounds[j].start_time <= rounds[resp'.id].start_time
               /\ resp'.start_time = rounds[resp'.id].start_time
               /\ resp'.status = rounds[resp'.id].status
          ELSE /\ resp'.kind = "RoundInfo"
               /\ resp'.status = "scheduled"
               /\ \/ rounds' = rounds /\ resp'.id = 0
                  \/ /\ Len(rounds') = Len(rounds) + 1
                     /\ resp'.id = Len(rounds')
                     /\ rounds'[resp'.id].status = "scheduled"]_vars

(* C13 witness: two stored rounds, both scheduled or running, the older    *)
(* with the greater start_time, and the last response is the older one:    *)
(* Get current round has returned it after the newer round was created.    *)
C13_Witness ==
    /\ Len(rounds) = 2
    /\ ActiveRounds = {1, 2}
    /\ rounds[1].start_time > rounds[2].start_time
    /\ resp.kind = "RoundInfo"
    /\ resp.id = 1

C15_DegradedModeResponds ==
    /\ resp.code = 200
    /\ resp.kind \in {"none", "RoundInfo", "bet_id", "profit"}
    /\ resp.kind = "RoundInfo" => resp.id \in {0} \cup DOMAIN rounds
    /\ resp.kind = "bet_id" => resp.id \in {0} \cup DOMAIN bets
    /\ (~dbUp) =>
           /\ ENABLED create_round(TRUE)
           /\ ENABLED get_current_round(TRUE)
           /\ ENABLED place_bet(TRUE)
           /\ ENABLED cashout(TRUE)
           /\ rounds = << >>
           /\ bets = << >>
           /\ resp.kind \in {"RoundInfo", "bet_id"} => resp.id = 0
           /\ resp.kind = "profit" => IsNone(resp.profit)

(* C15 witness: the store is unreachable and a round has been answered     *)
(* with an ephemeral id                                                    *)
C15_Witness ==
    /\ ~dbUp
    /\ resp.kind = "RoundInfo"
    /\ resp.id = 0

C18_CashedOutAtAndProfitTogether ==
    [][\A i \in DOMAIN bets' :
          /\ IsNone(bets'[i].cashed_out_at) <=> IsNone(bets'[i].profit)
          /\ (i > Len(bets)) => (IsNone(bets'[i].cashed_out_at) /\ IsNone(bets'[i].profit))]_vars

(* C18 witness: one stored bet has both fields set, another has both unset *)
C18_Witness ==
    \E i, j \in DOMAIN bets :
        /\ WellFormed(bets[i])
        /\ WellFormed(bets[j])
        /\ ~IsNone(bets[i].cashed_out_at)
        /\ ~IsNone(bets[i].profit)
        /\ IsNone(bets[j].cashed_out_at)
        /\ IsNone(bets[j].profit)

(* C19: a step of place_bet or of cashout that stores or settles a bet     *)
(* leaves every stored round as it was (status, start_time, crash_at, k,   *)
(* server_seed), and leaves round_id, player_id, amount and auto_cashout   *)
(* of every bet stored before the step as they were.  (A step of theirs    *)
(* that changes no bet changes nothing at all.)                            *)
C19_BetOperationsLeaveRounds ==
    [][(bets' # bets /\ (place_bet(FALSE) \/ cashout(FALSE))) =>
          /\ rounds' = rounds
          /\ Len(bets') >= Len(bets)
          /\ \A i \in DOMAIN bets :
                 /\ bets'[i].round_id = bets[i].round_id
                 /\ bets'[i].player_id = bets[i].player_id
                 /\ bets'[i].amount = bets[i].amount
                 /\ bets'[i].auto_cashout = bets[i].auto_cashout]_vars

(* C19 witness: a bet on a stored, running round has been cashed out *)
C19_Witness ==
    \E i \in DOMAIN bets :
        /\ bets[i].round_id \in DOMAIN rounds
        /\ rounds[bets[i].round_id].status = "running"
        /\ WellFormed(bets[i])
        /\ Settled(bets[i])
        /\ Val(bets[i].profit) > 0

(* C20: every settled well-formed bet has a profit >= 0 and a              *)
(* cashed_out_at >= 1.0, and every profit returned for one is >= 0.        *)
C20_NoSettlementBelowOne ==
    /\ \A i \in DOMAIN bets :
           (WellFormed(bets[i]) /\ Settled(bets[i])) =>
               /\ Val(bets[i].profit) >= 0
               /\ Val(bets[i].cashed_out_at) >= 100
    /\ ((\A i \in DOMAIN bets : WellFormed(bets[i]))
        /\ resp.kind = "profit" /\ ~IsNone(resp.profit)) => Val(resp.profit) >= 0

====
